---- MODULE Spec2Model ----
(***************************************************************************)
(* Model of src/housekeeping_state/reducers/loginSlice.ts: the login slice *)
(* of the Redux store (loggedIn, token, status), its two synchronous       *)
(* reducers, the three lifecycle reducers of the loginAsync thunk, the     *)
(* selectors and the hand-written thunk logOutIfLoggedIn.                  *)
(***************************************************************************)
EXTENDS Integers, Sequences, FiniteSets, TLC

\* Number of loginAsync invocations a behaviour may dispatch.
MaxInvocations == 2

\* Number of distinct non-empty token strings used as payloads.
MaxTokens == 2

Invocations == 1..MaxInvocations

\* The non-empty token strings "tok1", "tok2", ...
NonEmptyTokens == { "tok" \o ToString(n) : n \in 1..MaxTokens }

\* Payload strings: PayloadAction<string> admits every string, "" included.
Tokens == {""} \cup NonEmptyTokens

VARIABLES
    login,      \* the LoginState slice of the store
    thunk,      \* position of each loginAsync invocation in its async body
    emitted,    \* lifecycle actions each invocation has dispatched, in order
    last,       \* the action most recently applied to the store
    before,     \* the slice as it was before that action
    prior,      \* the type of the action applied before `last`
    log         \* lifecycle actions of all invocations, in dispatch order

vars == <<login, thunk, emitted, last, before, prior, log>>

Status == {"idle", "loading", "failed"}

LoginState == [loggedIn : BOOLEAN, token : Tokens, status : Status]

initialState == [loggedIn |-> FALSE, token |-> "", status |-> "idle"]

\* ---------------------------------------------------------------- reducers

logIn_NoFlag(state, payload) == [state EXCEPT !.token = payload]

logIn_NoToken(state, payload) == [state EXCEPT !.loggedIn = TRUE]

logIn_Validates(state, payload) ==
    IF payload = "" THEN state
    ELSE [state EXCEPT !.token = payload, !.loggedIn = TRUE]

logIn(state, payload) ==
    [state EXCEPT !.token = payload, !.loggedIn = TRUE]

logOut_KeepToken(state) == [state EXCEPT !.loggedIn = FALSE]

logOut_ResetsStatus(state) ==
    [state EXCEPT !.loggedIn = FALSE, !.token = "", !.status = "idle"]

logOut(state) ==
    [state EXCEPT !.loggedIn = FALSE, !.token = ""]

pending_ClearsSession(state) ==
    [state EXCEPT !.status = "loading", !.loggedIn = FALSE, !.token = ""]

pending_NoStatus(state) == state

loginAsync_pending(state) ==
    [state EXCEPT !.status = "loading"]

fulfilled_KeepStatus(state, payload) ==
    [state EXCEPT !.token = payload, !.loggedIn = TRUE]

fulfilled_NoFlag(state, payload) ==
    [state EXCEPT !.status = "idle", !.token = payload]

loginAsync_fulfilled(state, payload) ==
    [state EXCEPT !.status = "idle", !.token = payload, !.loggedIn = TRUE]

rejected_KeepSession(state) == [state EXCEPT !.status = "failed"]

loginAsync_rejected(state) ==
    [state EXCEPT !.status = "failed", !.loggedIn = FALSE, !.token = ""]

\* --------------------------------------------------------------- selectors

\* RootState as the selectors see it: the slice mounted under `login`.
getState == [login |-> login]

RootOf(slice) == [login |-> slice]

selectToken(state) == state.login.token

selectLoggedIn_FlagOnly(state) == state.login.loggedIn

selectLoggedIn(state) == state.login.token /= "" /\ state.login.loggedIn

\* ------------------------------------------------------- logOutIfLoggedIn

logOutIfLoggedIn_Always(state) == logOut(state.login)

logOutIfLoggedIn_Never(state) == state.login

\* The slice the store holds after the thunk ran against RootState `state`.
logOutIfLoggedIn(state) ==
    LET isLoggedIn == selectLoggedIn(state)
    IN  IF isLoggedIn THEN logOut(state.login) ELSE state.login

\* ------------------------------------------------------------------- Init

NoAction == [type |-> "init", payload |-> "", id |-> 0]

Init ==
    /\ login = initialState
    /\ thunk = [i \in Invocations |-> "notDispatched"]
    /\ emitted = [i \in Invocations |-> <<>>]
    /\ last = NoAction
    /\ before = initialState
    /\ prior = "init"
    /\ log = <<>>

\* ---------------------------------------------------------------- actions

DispatchLogIn(t) ==
    /\ login' = logIn(login, t)
    /\ last' = [type |-> "logIn", payload |-> t, id |-> 0]
    /\ before' = login
    /\ prior' = last.type
    /\ UNCHANGED <<thunk, emitted, log>>

DispatchLogOut ==
    /\ login' = logOut(login)
    /\ last' = [type |-> "logOut", payload |-> "", id |-> 0]
    /\ before' = login
    /\ prior' = last.type
    /\ UNCHANGED <<thunk, emitted, log>>

DispatchLogOutIfLoggedIn ==
    /\ login' = logOutIfLoggedIn(getState)
    /\ last' = [type |-> "logOutIfLoggedIn", payload |-> "", id |-> 0]
    /\ before' = login
    /\ prior' = last.type
    /\ UNCHANGED <<thunk, emitted, log>>

\* dispatch(loginAsync(data)): the pending action is dispatched and the
\* payload creator runs up to `await fetchLogin(...)`.
LoginAsyncPending(i) ==
    /\ thunk[i] = "notDispatched"
    /\ login' = loginAsync_pending(login)
    /\ thunk' = [thunk EXCEPT ![i] = "awaiting"]
    /\ emitted' = [emitted EXCEPT ![i] = Append(@, "pending")]
    /\ last' = [type |-> "pending", payload |-> "", id |-> i]
    /\ before' = login
    /\ prior' = last.type
    /\ log' = Append(log, <<i, "pending">>)

Fulfilled_NoSettle(i, tok) ==
    /\ thunk[i] = "awaiting"
    /\ Len(emitted[i]) < 3
    /\ login' = loginAsync_fulfilled(login, tok)
    /\ thunk' = thunk
    /\ emitted' = [emitted EXCEPT ![i] = Append(@, "fulfilled")]
    /\ last' = [type |-> "fulfilled", payload |-> tok, id |-> i]
    /\ before' = login
    /\ prior' = last.type
    /\ log' = Append(log, <<i, "fulfilled">>)

\* fetchLogin resolved with response.data = tok: the payload creator returns
\* it and the fulfilled action is dispatched.
LoginAsyncFulfilled(i, tok) ==
    /\ thunk[i] = "awaiting"
    /\ login' = loginAsync_fulfilled(login, tok)
    /\ thunk' = [thunk EXCEPT ![i] = "settled"]
    /\ emitted' = [emitted EXCEPT ![i] = Append(@, "fulfilled")]
    /\ last' = [type |-> "fulfilled", payload |-> tok, id |-> i]
    /\ before' = login
    /\ prior' = last.type
    /\ log' = Append(log, <<i, "fulfilled">>)

\* fetchLogin threw: the rejected action is dispatched.
LoginAsyncRejected(i) ==
    /\ thunk[i] = "awaiting"
    /\ login' = loginAsync_rejected(login)
    /\ thunk' = [thunk EXCEPT ![i] = "settled"]
    /\ emitted' = [emitted EXCEPT ![i] = Append(@, "rejected")]
    /\ last' = [type |-> "rejected", payload |-> "", id |-> i]
    /\ before' = login
    /\ prior' = last.type
    /\ log' = Append(log, <<i, "rejected">>)

Next ==
    \/ \E t \in Tokens : DispatchLogIn(t)
    \/ DispatchLogOut
    \/ DispatchLogOutIfLoggedIn
    \/ \E i \in Invocations : LoginAsyncPending(i)
    \/ \E i \in Invocations, tok \in Tokens : LoginAsyncFulfilled(i, tok)
    \/ \E i \in Invocations : LoginAsyncRejected(i)

Spec == Init /\ [][Next]_vars

\* The LoginClient call of every dispatched invocation eventually completes
\* or fails.
Settle(i) == (\E tok \in Tokens : LoginAsyncFulfilled(i, tok)) \/ LoginAsyncRejected(i)

FairSpec == Spec /\ \A i \in Invocations : WF_vars(Settle(i))

TypeOK ==
    /\ login \in LoginState
    /\ before \in LoginState
    /\ thunk \in [Invocations -> {"notDispatched", "awaiting", "settled"}]
    /\ prior \in {"init", "logIn", "logOut", "logOutIfLoggedIn",
                  "pending", "fulfilled", "rejected"}
    /\ Len(log) <= 2 * MaxInvocations

\* ------------------------------------------------------------------ claims

\* C1: for every non-empty token t, in the state right after logIn(t),
\* selectLoggedIn returns true and selectToken returns t.
C1_LogInAuthenticates ==
    (last.type = "logIn" /\ last.payload /= "")
        => (selectLoggedIn(getState) /\ selectToken(getState) = last.payload)

\* logIn(t), t non-empty, applied to a store that was not authenticated.
C1_Witness ==
    /\ last.type = "logIn"
    /\ last.payload /= ""
    /\ ~selectLoggedIn(RootOf(before))
    /\ selectLoggedIn(getState)

\* C2: in the state right after logOut, whatever the state was before and
\* whether or not an invocation is pending, loggedIn is false, token is ""
\* and selectLoggedIn returns false.
C2_LogOutClearsSession ==
    last.type = "logOut"
        => (/\ login.loggedIn = FALSE
            /\ login.token = ""
            /\ selectLoggedIn(getState) = FALSE
            /\ selectToken(getState) = "")

\* logOut applied to an authenticated store while an invocation is pending.
C2_Witness ==
    /\ last.type = "logOut"
    /\ selectLoggedIn(RootOf(before))
    /\ \E i \in Invocations : thunk[i] = "awaiting"

\* C3: in the state right after a fulfilled transition carrying token tok,
\* status = idle, token = tok and loggedIn = true, whatever the state before.
C3_FulfilledState ==
    last.type = "fulfilled"
        => login = [loggedIn |-> TRUE, token |-> last.payload, status |-> "idle"]

\* The success scenario: one invocation from the initial state, resolved
\* with a token.
C3_Witness ==
    /\ last.type = "fulfilled"
    /\ before = [loggedIn |-> FALSE, token |-> "", status |-> "loading"]
    /\ login = [loggedIn |-> TRUE, token |-> "tok1", status |-> "idle"]

\* C4: in the state right after a rejected transition, status = failed,
\* loggedIn = false and token = "", also when the user was authenticated
\* before it.
C4_RejectedState ==
    last.type = "rejected"
        => login = [loggedIn |-> FALSE, token |-> "", status |-> "failed"]

\* A rejection applied to a store that was authenticated.
C4_Witness ==
    /\ last.type = "rejected"
    /\ selectLoggedIn(RootOf(before))
    /\ login.status = "failed"

\* C5: the pending transition sets status to loading and leaves loggedIn and
\* token as they were.
C5_PendingFrame ==
    last.type = "pending"
        => (/\ login.status = "loading"
            /\ login.loggedIn = before.loggedIn
            /\ login.token = before.token)

\* An invocation started by an authenticated user, who stays authenticated.
C5_Witness ==
    /\ last.type = "pending"
    /\ selectLoggedIn(RootOf(before))
    /\ before.status /= "loading"
    /\ selectLoggedIn(getState)

\* C6: logOutIfLoggedIn dispatched where selectLoggedIn is false leaves
\* loggedIn, token and status unchanged.
C6_NoOpWhenLoggedOut ==
    (last.type = "logOutIfLoggedIn" /\ ~selectLoggedIn(RootOf(before)))
        => login = before

\* logOutIfLoggedIn on the desynchronised state loggedIn = true, token = "".
C6_Witness ==
    /\ last.type = "logOutIfLoggedIn"
    /\ before.loggedIn = TRUE
    /\ before.token = ""
    /\ login = before

\* C7: logOutIfLoggedIn dispatched where selectLoggedIn is true produces the
\* state that logOut produces from the same starting state.
C7_SameAsLogOut ==
    (last.type = "logOutIfLoggedIn" /\ selectLoggedIn(RootOf(before)))
        => login = logOut(before)

\* logOutIfLoggedIn on an authenticated store with a request in flight.
C7_Witness ==
    /\ last.type = "logOutIfLoggedIn"
    /\ selectLoggedIn(RootOf(before))
    /\ before.status = "loading"
    /\ login.loggedIn = FALSE

\* C8: in every state selectLoggedIn returns exactly token != "" AND
\* loggedIn; with an empty token it returns false even if loggedIn is true.
C8_SelectLoggedInValue ==
    /\ selectLoggedIn(getState) = (login.token /= "" /\ login.loggedIn)
    /\ login.token = "" => selectLoggedIn(getState) = FALSE

\* The desynchronised state {loggedIn: true, token: "", status: "idle"}.
C8_Witness ==
    /\ login = [loggedIn |-> TRUE, token |-> "", status |-> "idle"]
    /\ selectLoggedIn(getState) = FALSE

Lifecycles ==
    {<<>>, <<"pending">>, <<"pending", "fulfilled">>, <<"pending", "rejected">>}

\* C9: every invocation dispatches pending first, then, once the LoginClient
\* call completes or fails, exactly one of fulfilled and rejected, and
\* nothing after it.
C9_ExactlyOneOutcome ==
    /\ [](\A i \in Invocations : emitted[i] \in Lifecycles)
    /\ \A i \in Invocations :
           (emitted[i] = <<"pending">>) ~> (Len(emitted[i]) = 2)

\* Two invocations both settled, one each way.
C9_Witness ==
    /\ emitted[1] = <<"pending", "rejected">>
    /\ emitted[2] = <<"pending", "fulfilled">>
    /\ thunk[1] = "settled"
    /\ thunk[2] = "settled"

\* C10 as stated: right after a fulfilled transition or a logIn action,
\* loggedIn is true, token is non-empty and status is not loading.
C10_Original ==
    last.type \in {"fulfilled", "logIn"}
        => (login.loggedIn /\ login.token /= "" /\ login.status /= "loading")

\* C10 amended: right after a fulfilled transition or a logIn action,
\* loggedIn is true and token is the action's payload (non-empty when the
\* payload is); status is not loading after fulfilled, and after logIn it is
\* what it was before (loading only if it was loading).
C10_LoginOutcome ==
    last.type \in {"fulfilled", "logIn"}
        => (/\ login.loggedIn
            /\ login.token = last.payload
            /\ last.payload /= "" => login.token /= ""
            /\ last.type = "fulfilled" => login.status /= "loading"
            /\ last.type = "logIn" => login.status = before.status)

\* logIn with a token while a request is in flight: authenticated, loading.
C10_Witness ==
    /\ last.type = "logIn"
    /\ last.payload /= ""
    /\ login.loggedIn
    /\ login.status = "loading"

\* ------------------------------------------------- lifecycle history helpers

Outcomes == {"fulfilled", "rejected"}

\* Position in `log` of invocation i's pending action, 0 if not dispatched.
PendingAt(i) ==
    IF \E k \in 1..Len(log) : log[k] = <<i, "pending">>
    THEN CHOOSE k \in 1..Len(log) : log[k] = <<i, "pending">>
    ELSE 0

\* Position in `log` of invocation i's outcome action, 0 if not settled.
OutcomeAt(i) ==
    IF \E k \in 1..Len(log) : log[k][1] = i /\ log[k][2] \in Outcomes
    THEN CHOOSE k \in 1..Len(log) : log[k][1] = i /\ log[k][2] \in Outcomes
    ELSE 0

\* Invocation j was dispatched while invocation i was awaiting fetchLogin.
StartedDuring(j, i) ==
    /\ i /= j
    /\ PendingAt(i) > 0
    /\ PendingAt(j) > PendingAt(i)
    /\ (OutcomeAt(i) = 0 \/ PendingAt(j) < OutcomeAt(i))

Overlapped(i, j) == StartedDuring(j, i) \/ StartedDuring(i, j)

NoOverlap == \A i, j \in Invocations : ~Overlapped(i, j)

\* The slice an outcome action writes, whatever the slice was before.
OutcomeState(action) ==
    IF action.type = "fulfilled"
    THEN [loggedIn |-> TRUE, token |-> action.payload, status |-> "idle"]
    ELSE [loggedIn |-> FALSE, token |-> "", status |-> "failed"]

\* C11 as stated: a pending transition is only applied when status is idle
\* or failed, and a fulfilled or rejected transition only when status is
\* loading, overlapping invocations included.
C11_Original ==
    /\ last.type = "pending" => before.status \in {"idle", "failed"}
    /\ last.type \in Outcomes => before.status = "loading"

\* C11 amended: a pending transition always ends in loading, a fulfilled one
\* in idle and a rejected one in failed; as long as no two invocations have
\* overlapped, pending is applied only when status is idle or failed and an
\* outcome only when status is loading.
C11_StatusPattern ==
    /\ last.type = "pending" => login.status = "loading"
    /\ last.type = "fulfilled" => login.status = "idle"
    /\ last.type = "rejected" => login.status = "failed"
    /\ NoOverlap =>
          /\ last.type = "pending" => before.status \in {"idle", "failed"}
          /\ last.type \in Outcomes => before.status = "loading"

\* The second of two overlapping invocations resolves after the first did:
\* its outcome is applied to a status that is no longer loading.
C11_Witness ==
    /\ last.type \in Outcomes
    /\ ~NoOverlap
    /\ before.status \in {"idle", "failed"}
    /\ login.status \in {"idle", "failed"}

\* C12: logIn, logOut and logOutIfLoggedIn leave status as it was.
C12_SyncKeepsStatus ==
    last.type \in {"logIn", "logOut", "logOutIfLoggedIn"}
        => login.status = before.status

\* A logOut that changed the session while a request was in flight.
C12_Witness ==
    /\ last.type = "logOut"
    /\ before.status = "loading"
    /\ login.status = "loading"
    /\ login /= before

\* C13: when two invocations overlapped and both have resolved, and no
\* synchronous action came after the last outcome, the slice is the one that
\* outcome writes, whichever invocation started first and whatever the other
\* one's outcome was.
C13_LastOutcomeWins ==
    (/\ last.type \in Outcomes
     /\ \E i, j \in Invocations :
            /\ Overlapped(i, j)
            /\ OutcomeAt(i) > 0
            /\ OutcomeAt(j) > 0
            /\ last.id \in {i, j})
        => (/\ log[Len(log)] = <<last.id, last.type>>
            /\ login = OutcomeState(last))

\* Invocation 1 starts first and resolves last, rejected, after invocation 2
\* was fulfilled with a token: the rejection wins.
C13_Witness ==
    /\ log = <<<<1, "pending">>, <<2, "pending">>,
               <<2, "fulfilled">>, <<1, "rejected">>>>
    /\ last = [type |-> "rejected", payload |-> "", id |-> 1]
    /\ selectLoggedIn(RootOf(before))
    /\ login = [loggedIn |-> FALSE, token |-> "", status |-> "failed"]

\* C14: logIn validates nothing: for every string t, the empty one included,
\* logIn(t) sets token = t and loggedIn = true, so after logIn("")
\* selectLoggedIn returns false.
C14_LogInNoValidation ==
    last.type = "logIn"
        => (/\ login.token = last.payload
            /\ login.loggedIn = TRUE
            /\ last.payload = "" => selectLoggedIn(getState) = FALSE)

\* logIn("") applied to a logged-out store.
C14_Witness ==
    /\ last = [type |-> "logIn", payload |-> "", id |-> 0]
    /\ before.loggedIn = FALSE
    /\ login.loggedIn = TRUE
    /\ login.token = ""
    /\ selectLoggedIn(getState) = FALSE

\* C15: in every reachable state loggedIn = false implies token = "".
C15_NoTokenWhenLoggedOut ==
    login.loggedIn = FALSE => login.token = ""

\* A store that held a token and was logged out, by logOut or a rejection.
C15_Witness ==
    /\ login.loggedIn = FALSE
    /\ before.token /= ""
    /\ last.type \in {"logOut", "logOutIfLoggedIn", "rejected"}

\* C16: status = loading implies that some invocation has applied its
\* pending transition and not yet its fulfilled or rejected one.
C16_LoadingHasOutstanding ==
    login.status = "loading"
        => \E i \in Invocations : emitted[i] = <<"pending">>

\* One invocation has resolved, another is outstanding and status is loading.
C16_Witness ==
    /\ login.status = "loading"
    /\ \E i \in Invocations : Len(emitted[i]) = 2
    /\ \E i \in Invocations : emitted[i] = <<"pending">>

\* C17: a logOut or logOutIfLoggedIn applied while an invocation is pending
\* does not cancel it: when that invocation is fulfilled next with a
\* non-empty token t, loggedIn = true, token = t and selectLoggedIn is true.
C17_LogOutDoesNotCancel ==
    (/\ prior \in {"logOut", "logOutIfLoggedIn"}
     /\ last.type = "fulfilled"
     /\ last.payload /= "")
        => (/\ login.loggedIn = TRUE
            /\ login.token = last.payload
            /\ selectLoggedIn(getState) = TRUE)

\* A logged-out store (the log-out came while the request was in flight)
\* that the fulfilled transition logs in again.
C17_Witness ==
    /\ prior = "logOut"
    /\ last.type = "fulfilled"
    /\ last.payload /= ""
    /\ before = [loggedIn |-> FALSE, token |-> "", status |-> "loading"]
    /\ selectLoggedIn(getState) = TRUE

\* C18: logOutIfLoggedIn reads the state and dispatches logOut in one step,
\* so right after it selectLoggedIn returns false.
C18_LoggedOutAfterThunk ==
    last.type = "logOutIfLoggedIn" => selectLoggedIn(getState) = FALSE

\* logOutIfLoggedIn applied to an authenticated store.
C18_Witness ==
    /\ last.type = "logOutIfLoggedIn"
    /\ selectLoggedIn(RootOf(before)) = TRUE
    /\ before.status = "failed"
    /\ selectLoggedIn(getState) = FALSE

====
